---- MODULE Spec2Model ----
(***************************************************************************)
(* arduino-serial: the command shell of src/arduino-serial.c.              *)
(*                                                                         *)
(* main() walks the command line with getopt_long and runs one handler per *)
(* flag, in order.  The state is main's locals, the set of open serial     *)
(* handles, and the log of the calls the shell makes on descriptors.       *)
(* The transport library (arduino-serial-lib.c) is not part of src/; its   *)
(* functions are modelled from the specification and from the way main     *)
(* uses their results.                                                     *)
(***************************************************************************)
EXTENDS Integers, Sequences, FiniteSets, TLC

\* ---------------------------------------------------------------- bounds
MaxArgs == 3      \* flags on the command line
MaxFile == 1      \* bytes in the file given to -f
MaxLines == 1     \* lines available on standard input
MaxRecv == 0      \* bytes the peer sends inside the loop of one -v
RelayMaxFile == 62  \* bytes in the file of a run that is one -p and one -f
LinkMaxFile == 4    \* the same, in a run that also shows the link transmitting

\* ------------------------------------------------------ program constants
EXIT_SUCCESS == 0
EXIT_FAILURE == 1
Running == -1            \* the process has not exited
NoFd == -1               \* int fd = -1
DefaultBaud == 9600      \* int baudrate = 9600
DefaultTimeout == 5000   \* int timeout = 5000
NL == 10                 \* char eolchar = '\n'
FileReadTimeout == 10000 \* serialport_read_byte_file(ifile, &b, 10000)
SaveReadTimeout == 5000  \* serialport_read_byte(fd, &b, 5000)
DrainEvery == 60         \* (a % 60) == 0
RcEof == 2               \* rc == 2: end of file
StdoutFd == 1            \* tcdrain(1)
LocalFd == 0             \* stands for a local file (ifile, ofile), no serial handle
FirstHandle == 3         \* descriptors 0..2 are the standard streams
Indeterminate == -1      \* uint8_t b; before anything is stored in it

\* Characters are their codes; strings are sequences of codes.
Bytes == {0, 65}       \* the bytes the peer answers to -y
FileBytes == {65}      \* the bytes of the file given to -f
SaveBytes == {65}      \* the bytes the peer sends to -v
Str4800 == <<52, 56, 48, 48>>   \* "4800"
Str7 == <<55>>                  \* "7"
Str20x == <<50, 48, 120>>       \* "20x"
StrNeg5 == <<45, 53>>           \* "-5"
StrHi == <<104, 105>>           \* "hi"
StrLine == <<104, 105, 10>>     \* "hi\n", a line as fgets returns it
StrPath == <<47>>               \* a device or file path
StrSemi == <<59>>               \* ";"

BaudArgs == {Str4800, Str7}
TimeoutArgs == {Str20x, StrNeg5}
NumArgs == {Str7}
DelayArgs == {Str7}
EolArgs == {StrSemi}
SendArgs == {StrHi}
PathArgs == {StrPath}

\* -------------------------------------------------------------- strtol
IsDigit(c) == c >= 48 /\ c <= 57

RECURSIVE DigitsVal(_, _)
\* value of the leading digits of s, acc the value so far
DigitsVal(s, acc) ==
    IF s = <<>> \/ ~IsDigit(Head(s)) THEN acc
    ELSE DigitsVal(Tail(s), acc * 10 + (Head(s) - 48))

\* strtol(optarg, NULL, 10): optional sign, leading digits, 0 if none.
Strtol(s) ==
    IF s = <<>> THEN 0
    ELSE IF Head(s) = 45 THEN 0 - DigitsVal(Tail(s), 0)
    ELSE IF Head(s) = 43 THEN DigitsVal(Tail(s), 0)
    ELSE DigitsVal(s, 0)

\* The arguments modelled have at most four digits, so the long strtol
\* returns always fits the int it is stored in and the store keeps its value.

\* (uint8_t)n
ToUint8(x) == x % 256

\* ------------------------------------------------------------- the state
VARIABLES
    argv,         \* the flags getopt_long has returned so far, in order
    stdin,        \* standard input: lines read so far, end of input seen
    exit_status,  \* Running, or the status the process exited with
    mode,         \* "getopt", or the loop a handler is in: "relay", "save", "stdin"
    fd, baudrate, quiet, eolchar, timeout, rc, n, b, a, buf,   \* main's locals
    ifile,        \* bytes left in the file opened by -f
    ports,        \* the open serial handles, each with its configured rate
    calls         \* the calls made on descriptors, in order

vars == <<argv, stdin, exit_status, mode, fd, baudrate, quiet, eolchar, timeout,
          rc, n, b, a, buf, ifile, ports, calls>>

Flag(o, arg) == [opt |-> o, arg |-> arg]

\* one call on a descriptor: at is the position of the flag that made it
Ev(op, h, data, tmo, res, at) ==
    [op |-> op, fd |-> h, data |-> data, tmo |-> tmo, res |-> res, at |-> at]

World == [ports |-> ports, calls |-> calls]

\* ------------------------------------------- the transport library
\* The rates the Port Configurator maps to a terminal speed.
SupportedBauds == {4800, 9600, 19200, 38400, 57600, 115200}

\* what the operating system can answer to an open-and-configure request
InitOutcomes == {"ok", "open-fails", "attributes-fail"}
\* what a timeout-bounded read can end with
ReadOutcomes == {"data", "timed-out", "error"}

\* the handle the next successful open returns: handles are never reused
NextHandle(w) ==
    FirstHandle + Cardinality({i \in DOMAIN w.calls :
                                 w.calls[i].op = "init" /\ w.calls[i].res # NoFd})

\* serialport_init(path, baud): the handle, or -1 and no handle at all
InitResult(w, os, baud) ==
    IF os = "ok" /\ baud \in SupportedBauds THEN NextHandle(w) ELSE NoFd

serialport_init(w, os, baud, at) ==
    LET h == InitResult(w, os, baud)
    IN  [ports |-> IF h = NoFd THEN w.ports
                   ELSE w.ports \cup {[h |-> h, baud |-> baud]},
         calls |-> Append(w.calls, Ev("init", h, <<>>, baud, h, at))]

\* serialport_flush(fd): discards pending input and output
serialport_flush(w, h, at) ==
    [w EXCEPT !.calls = Append(@, Ev("flush", h, <<>>, 0, 0, at))]

\* serialport_close(fd): flushes, then releases the handle
serialport_close(w, h, at) ==
    [ports |-> {p \in w.ports : p.h # h},
     calls |-> w.calls \o <<Ev("flush", h, <<>>, 0, 0, at),
                            Ev("close", h, <<>>, 0, 0, at)>>]

\* serialport_writebyte(fd, b) and serialport_write(fd, str): 0, or -1 on failure
WriteResults == {0, -1}

serialport_writebyte(w, h, byte, res, at) ==
    [w EXCEPT !.calls = Append(@, Ev("writebyte", h, <<byte>>, 0, res, at))]

serialport_write(w, h, str, res, at) ==
    [w EXCEPT !.calls = Append(@, Ev("write", h, str, 0, res, at))]

\* the return code of a timeout-bounded read
ReadRc(outcome) ==
    CASE outcome = "data" -> 1
      [] outcome = "timed-out" -> -2
      [] OTHER -> -1

\* serialport_read_byte(fd, &b, timeout): data holds the byte on "data"
serialport_read_byte(w, h, tmo, outcome, byte, at) ==
    [w EXCEPT !.calls =
        Append(@, Ev("read_byte", h, IF outcome = "data" THEN <<byte>> ELSE <<>>,
                     tmo, ReadRc(outcome), at))]

\* serialport_read_until(fd, buf, eol, max, timeout): data holds the line read
serialport_read_until(w, h, tmo, outcome, line, at) ==
    [w EXCEPT !.calls =
        Append(@, Ev("read_until", h, line, tmo,
                     IF outcome = "data" THEN 0 ELSE ReadRc(outcome), at))]

\* fopen(optarg, "r") and open(optarg, O_WRONLY | O_CREAT | O_TRUNC, 0666)
OpenResult(opened) == IF opened THEN 0 ELSE -1

open_file(w, op, opened, at) ==
    [w EXCEPT !.calls = Append(@, Ev(op, LocalFd, <<>>, 0, OpenResult(opened), at))]

\* fopen(optarg, "r") on a file that holds content
open_ifile(w, opened, content, at) ==
    [w EXCEPT !.calls =
        Append(@, Ev("fopen", LocalFd, IF opened THEN content ELSE <<>>, 0,
                     OpenResult(opened), at))]

\* a printf that puts program data on the console: data is what it prints
print(w, op, data, at) ==
    [w EXCEPT !.calls = Append(@, Ev(op, StdoutFd, data, 0, 0, at))]

\* tcdrain(fd)
tcdrain(w, h, at) ==
    [w EXCEPT !.calls = Append(@, Ev("tcdrain", h, <<>>, 0, 0, at))]

\* ------------------------------------------------------------------ main
Init ==
    /\ argv = <<>>
    /\ stdin = [read |-> 0, eof |-> FALSE]
    /\ exit_status = Running
    /\ mode = "getopt"
    /\ fd = NoFd
    /\ baudrate = DefaultBaud
    /\ quiet = 0
    /\ eolchar = NL
    /\ timeout = DefaultTimeout
    /\ rc = 0
    /\ n = 0
    /\ b = Indeterminate    \* uint8_t b is not initialised
    /\ a = 0
    /\ buf = <<>>
    /\ ifile = <<>>
    /\ ports = {}
    /\ calls = <<>>

\* getopt_long returns one more flag: the process runs, no handler is in a loop
Getopt ==
    /\ exit_status = Running
    /\ mode = "getopt"
    /\ Len(argv) < MaxArgs

\* the position of the flag getopt_long returns now
Here == Len(argv) + 1

locals == <<fd, baudrate, quiet, eolchar, timeout, rc, n, b, a, buf>>
world == <<ports, calls>>

\* if (argc==1) usage();
NoArgs ==
    /\ exit_status = Running /\ mode = "getopt" /\ argv = <<>>
    /\ exit_status' = EXIT_SUCCESS
    /\ UNCHANGED <<argv, stdin, mode, locals, ifile, world>>

\* if (opt==-1) break;  ...  exit(EXIT_SUCCESS);
EndOfOptions ==
    /\ exit_status = Running /\ mode = "getopt" /\ argv # <<>>
    /\ exit_status' = EXIT_SUCCESS
    /\ UNCHANGED <<argv, stdin, mode, locals, ifile, world>>

\* an option character with no case in the switch
OptOther ==
    /\ Getopt
    /\ argv' = Append(argv, Flag("?", <<>>))
    /\ UNCHANGED <<stdin, exit_status, mode, locals, ifile, world>>

OptQ ==
    /\ Getopt
    /\ argv' = Append(argv, Flag("q", <<>>))
    /\ quiet' = 1
    /\ UNCHANGED <<stdin, exit_status, mode, fd, baudrate, eolchar, timeout,
                   rc, n, b, a, buf, ifile, world>>

OptE ==
    /\ Getopt
    /\ \E arg \in EolArgs :
        /\ argv' = Append(argv, Flag("e", arg))
        /\ eolchar' = arg[1]
    /\ UNCHANGED <<stdin, exit_status, mode, fd, baudrate, quiet, timeout,
                   rc, n, b, a, buf, ifile, world>>

\* the value case 't' stores in timeout
TimeoutOf(arg) == Strtol(arg)

OptT ==
    /\ Getopt
    /\ \E arg \in TimeoutArgs :
        /\ argv' = Append(argv, Flag("t", arg))
        /\ timeout' = TimeoutOf(arg)
    /\ UNCHANGED <<stdin, exit_status, mode, fd, baudrate, quiet, eolchar,
                   rc, n, b, a, buf, ifile, world>>

OptD ==
    /\ Getopt
    /\ \E arg \in DelayArgs :
        /\ argv' = Append(argv, Flag("d", arg))
        /\ n' = Strtol(arg)
    /\ UNCHANGED <<stdin, exit_status, mode, fd, baudrate, quiet, eolchar, timeout,
                   rc, b, a, buf, ifile, world>>

\* usage() ends the process with EXIT_SUCCESS
OptH ==
    /\ Getopt
    /\ argv' = Append(argv, Flag("h", <<>>))
    /\ exit_status' = EXIT_SUCCESS
    /\ UNCHANGED <<stdin, mode, locals, ifile, world>>

\* the value case 'b' stores in baudrate
BaudOf(arg) == Strtol(arg)

OptB ==
    /\ Getopt
    /\ \E arg \in BaudArgs :
        /\ argv' = Append(argv, Flag("b", arg))
        /\ baudrate' = BaudOf(arg)
    /\ UNCHANGED <<stdin, exit_status, mode, fd, quiet, eolchar, timeout,
                   rc, n, b, a, buf, ifile, world>>

\* a reopen that leaves the prior handle open
PClosePrior_Skip(w, f, at) == w

\* a reopen that releases the prior handle with a bare close
PClosePrior_BareClose(w, f, at) ==
    IF f # NoFd
    THEN [ports |-> {p \in w.ports : p.h # f},
          calls |-> Append(w.calls, Ev("close", f, <<>>, 0, 0, at))]
    ELSE w

\* if( fd!=-1 ) { serialport_close(fd); ... }
PClosePrior(w, f, at) == IF f # NoFd THEN serialport_close(w, f, at) ELSE w

\* an open that ignores the rate set by -b
PInit_DefaultBaud(w, os, baud, at) == serialport_init(w, os, DefaultBaud, at)

\* fd = serialport_init(optarg, baudrate);
PInit(w, os, baud, at) == serialport_init(w, os, baud, at)

\* a -p that does not look at the result of serialport_init
PFailed_Unchecked(f) == FALSE

\* if( fd==-1 ) error("couldn't open port");
PFailed(f) == f = NoFd

OptP ==
    /\ Getopt
    /\ \E arg \in PathArgs, os \in InitOutcomes :
        LET w1 == PClosePrior(World, fd, Here)
            w2 == PInit(w1, os, baudrate, Here)
            f  == w2.calls[Len(w2.calls)].res
            w3 == IF PFailed(f) THEN w2 ELSE serialport_flush(w2, f, Here)
        IN  /\ argv' = Append(argv, Flag("p", arg))
            /\ fd' = f
            /\ exit_status' = IF PFailed(f) THEN EXIT_FAILURE ELSE exit_status
            /\ ports' = w3.ports
            /\ calls' = w3.calls
    /\ UNCHANGED <<stdin, mode, baudrate, quiet, eolchar, timeout,
                   rc, n, b, a, buf, ifile>>

\* a handler without its check of fd
PortNotOpened_Unchecked(f) == FALSE

\* if( fd == -1 ) error("serial port not opened");
PortNotOpened(f) == f = NoFd

\* if(rc==-1) error("error writing");
WriteFailed(r) == r = -1

\* a++ on a short: 16 bits, two's complement
ToShort(x) ==
    LET m == x % 65536
    IN  IF m >= 32768 THEN m - 65536 ELSE m

OptN ==
    /\ Getopt
    /\ \E arg \in NumArgs, res \in WriteResults :
        /\ argv' = Append(argv, Flag("n", arg))
        /\ IF PortNotOpened(fd)
           THEN /\ exit_status' = EXIT_FAILURE
                /\ UNCHANGED <<n, rc, calls>>
           ELSE /\ n' = Strtol(arg)
                /\ rc' = res
                /\ calls' = serialport_writebyte(World, fd, ToUint8(n'), res, Here).calls
                /\ exit_status' = IF WriteFailed(res) THEN EXIT_FAILURE ELSE exit_status
    /\ UNCHANGED <<stdin, mode, fd, baudrate, quiet, eolchar, timeout,
                   b, a, buf, ifile, ports>>

\* ------------------------------------------------------ -f: the file relay
RECURSIVE SeqsUpTo(_, _)
\* the sequences over S of length at most k
SeqsUpTo(S, k) ==
    IF k = 0 THEN {<<>>}
    ELSE LET shorter == SeqsUpTo(S, k - 1)
         IN  shorter \cup {Append(q, x) : q \in shorter, x \in S}

FileContents == SeqsUpTo(FileBytes, MaxFile)

\* case 'f' up to the loop: the checks, fopen, a = 0, serialport_flush(fd);
\* files are the contents the file named by optarg may have
OptFWith(files) ==
    /\ Getopt
    /\ \E arg \in PathArgs, opened \in BOOLEAN, content \in files :
        /\ argv' = Append(argv, Flag("f", arg))
        /\ IF PortNotOpened(fd)
           THEN /\ exit_status' = EXIT_FAILURE
                /\ UNCHANGED <<mode, a, ifile, calls>>
           ELSE IF ~opened
           THEN \* perror("error opening input file"); break;
                /\ calls' = open_ifile(World, opened, content, Here).calls
                /\ UNCHANGED <<exit_status, mode, a, ifile>>
           ELSE /\ ifile' = content
                /\ a' = 0
                /\ calls' = serialport_flush(open_ifile(World, opened, content, Here),
                                             fd, Here).calls
                /\ mode' = "relay"
                /\ UNCHANGED exit_status
    /\ UNCHANGED <<stdin, fd, baudrate, quiet, eolchar, timeout, rc, n, b, buf, ports>>

OptF == OptFWith(FileContents)

\* serialport_read_byte_file(ifile, &b, 10000): 0 and a byte, 2 at the end of
\* the file, negative on a failed or timed-out read
FileReadRcs(f) == (IF f = <<>> THEN {RcEof} ELSE {0}) \cup {-1}

serialport_read_byte_file(w, f, r, at) ==
    [w EXCEPT !.calls =
        Append(@, Ev("read_byte_file", LocalFd, IF r = 0 THEN <<Head(f)>> ELSE <<>>,
                     FileReadTimeout, r, at))]

\* a relay that drains after the first byte only
RelayDrain_Once(w, h, cnt, at) ==
    IF cnt = 0 THEN tcdrain(tcdrain(w, h, at), StdoutFd, at) ELSE w

\* if ((a % 60) == 0) { tcdrain(fd); tcdrain(1); }
RelayDrain(w, h, cnt, at) ==
    IF cnt % DrainEvery = 0 THEN tcdrain(tcdrain(w, h, at), StdoutFd, at) ELSE w

\* a loop that goes on after a failed write
RelayAgain_Always(r) == TRUE

\* } while (rc == 0);
RelayAgain(r) == r = 0

\* printf("%c", b): b holds no value before the first byte is stored in it, and
\* what is echoed then is any character
EchoChars(cur) == IF cur = Indeterminate THEN Bytes ELSE {cur}

\* a relay that writes the last byte once more at the end of the file
RelayAtEof_WriteAgain(w, h, byte, at) ==
    serialport_flush(serialport_writebyte(w, h, byte, 0, at), h, at)

\* else if (rc == 2) { printf("end of file reached\n"); serialport_flush(fd); break; }
RelayAtEof(w, h, byte, at) == serialport_flush(w, h, at)

\* if(!quiet) printf("completed file read/input (%d bytes) ...", a, ...)
RelayReport(w, q, cnt, at) == IF q = 0 THEN print(w, "report", <<cnt>>, at) ELSE w

\* one pass of the do-while loop; the pass that leaves the loop also runs the
\* code after it (the report, fclose) and returns to getopt_long
RelayStep ==
    /\ exit_status = Running /\ mode = "relay"
    /\ \E r \in FileReadRcs(ifile), res \in WriteResults :
        LET at == Len(argv)
            w1 == serialport_read_byte_file(World, ifile, r, at)
            byte == IF r = 0 THEN Head(ifile) ELSE b
        IN  \E ch \in EchoChars(byte) :
            LET w2 == print(w1, "echo", <<ch>>, at)
            IN  /\ b' = byte
                /\ IF r < 0
                   THEN /\ rc' = r
                        /\ calls' = RelayReport(w2, quiet, a, at).calls
                        /\ mode' = "getopt"
                        /\ ifile' = <<>>
                        /\ UNCHANGED a
                   ELSE IF r = RcEof
                   THEN /\ rc' = r
                        /\ calls' = RelayReport(RelayAtEof(w2, fd, byte, at),
                                                quiet, a, at).calls
                        /\ mode' = "getopt"
                        /\ ifile' = <<>>
                        /\ UNCHANGED a
                   ELSE LET w3 == RelayDrain(serialport_writebyte(w2, fd, byte, res, at),
                                             fd, a, at)
                        IN  /\ rc' = res
                            /\ a' = ToShort(a + 1)
                            /\ IF RelayAgain(res)
                               THEN /\ calls' = w3.calls
                                    /\ ifile' = Tail(ifile)
                                    /\ UNCHANGED mode
                               ELSE /\ calls' = RelayReport(w3, quiet, a', at).calls
                                    /\ ifile' = <<>>
                                    /\ mode' = "getopt"
    /\ UNCHANGED <<argv, stdin, exit_status, fd, baudrate, quiet, eolchar, timeout,
                   n, buf, ports>>

\* ----------------------------------------------------- -v: save to a file
\* the bytes a save may still receive once a bytes have arrived
MayReceive(cnt) == cnt <= MaxRecv

\* rc <= 0 after serialport_read_byte: nothing was received
NoInput(r) == r <= 0

\* case 'v' up to the loop: the checks, open, the first read and write, a = 1
OptV ==
    /\ Getopt
    /\ \E arg \in PathArgs, opened \in BOOLEAN, outcome \in ReadOutcomes,
          byte \in SaveBytes, res \in WriteResults :
        /\ argv' = Append(argv, Flag("v", arg))
        /\ IF PortNotOpened(fd)
           THEN /\ exit_status' = EXIT_FAILURE
                /\ UNCHANGED <<mode, rc, b, a, calls>>
           ELSE IF ~opened
           THEN \* perror("error opening output file"); break;
                /\ calls' = open_file(World, "open", opened, Here).calls
                /\ UNCHANGED <<exit_status, mode, rc, b, a>>
           ELSE LET w1 == serialport_read_byte(open_file(World, "open", opened, Here),
                                               fd, SaveReadTimeout, outcome, byte, Here)
                IN  IF NoInput(ReadRc(outcome))
                    THEN /\ rc' = ReadRc(outcome)
                         /\ calls' = w1.calls
                         /\ UNCHANGED <<exit_status, mode, b, a>>
                    ELSE /\ b' = byte
                         /\ rc' = res
                         /\ calls' = tcdrain(serialport_writebyte(w1, LocalFd, byte,
                                                                  res, Here),
                                             LocalFd, Here).calls
                         /\ a' = 1
                         /\ mode' = "save"
                         /\ UNCHANGED exit_status
    /\ UNCHANGED <<stdin, fd, baudrate, quiet, eolchar, timeout, n, buf, ifile, ports>>

\* while (rc <= 0)
SaveAgain(r) == r <= 0

\* if ((a % 60) == 0) { tcdrain(ofile); tcdrain(1); }
SaveDrain(w, cnt, at) ==
    IF cnt % DrainEvery = 0 THEN tcdrain(tcdrain(w, LocalFd, at), StdoutFd, at) ELSE w

\* one test of the while condition and, if it holds, one pass of the body; leaving
\* the loop runs the code after it (close) and returns to getopt_long
SaveStep ==
    /\ exit_status = Running /\ mode = "save"
    /\ \E outcome \in ReadOutcomes, byte \in SaveBytes, res \in WriteResults :
        LET at == Len(argv)
            w1 == serialport_read_byte(World, fd, SaveReadTimeout, outcome, byte, at)
        IN  /\ (outcome = "data" => MayReceive(a))
            /\ IF ~SaveAgain(rc)
               THEN /\ mode' = "getopt"
                    /\ UNCHANGED <<rc, b, a, calls>>
               ELSE IF NoInput(ReadRc(outcome))
               THEN /\ rc' = ReadRc(outcome)
                    /\ calls' = tcdrain(w1, LocalFd, at).calls
                    /\ mode' = "getopt"
                    /\ UNCHANGED <<b, a>>
               ELSE /\ b' = byte
                    /\ rc' = res
                    /\ calls' = SaveDrain(serialport_writebyte(w1, LocalFd, byte, res, at),
                                          a, at).calls
                    /\ a' = ToShort(a + 1)
                    /\ UNCHANGED mode
    /\ UNCHANGED <<argv, stdin, exit_status, fd, baudrate, quiet, eolchar, timeout,
                   n, buf, ifile, ports>>

\* ------------------------------------------------------------ -s, -S, -i
\* sprintf(buf, (opt=='S' ? "%s\n" : "%s"), optarg);
SendBuf(o, arg) == IF o = "S" THEN Append(arg, NL) ELSE arg

OptS ==
    /\ Getopt
    /\ \E o \in {"s", "S"}, arg \in SendArgs, res \in WriteResults :
        /\ argv' = Append(argv, Flag(o, arg))
        /\ IF PortNotOpened(fd)
           THEN /\ exit_status' = EXIT_FAILURE
                /\ UNCHANGED <<rc, buf, calls>>
           ELSE /\ buf' = SendBuf(o, arg)
                /\ rc' = res
                /\ calls' = serialport_write(World, fd, buf', res, Here).calls
                /\ exit_status' = IF WriteFailed(res) THEN EXIT_FAILURE ELSE exit_status
    /\ UNCHANGED <<stdin, mode, fd, baudrate, quiet, eolchar, timeout,
                   n, b, a, ifile, ports>>

\* case 'i' up to the loop: rc=-1; the check
OptI ==
    /\ Getopt
    /\ argv' = Append(argv, Flag("i", <<>>))
    /\ rc' = -1
    /\ IF PortNotOpened(fd)
       THEN /\ exit_status' = EXIT_FAILURE
            /\ UNCHANGED mode
       ELSE /\ mode' = "stdin"
            /\ UNCHANGED exit_status
    /\ UNCHANGED <<stdin, fd, baudrate, quiet, eolchar, timeout,
                   n, b, a, buf, ifile, world>>

\* fgets(buf, buf_max, stdin) returns a line while input is left
HasLine(in) == ~in.eof /\ in.read < MaxLines

\* one test of while(fgets(...)) and, if a line was read, one pass of the body;
\* at the end of input the code after the loop runs
StdinStep ==
    /\ exit_status = Running /\ mode = "stdin"
    /\ \E got \in BOOLEAN, res \in WriteResults :
        /\ (got => HasLine(stdin))
        /\ IF got
           THEN /\ stdin' = [stdin EXCEPT !.read = @ + 1]
                /\ buf' = StrLine
                /\ rc' = res
                /\ calls' = serialport_write(World, fd, StrLine, res, Len(argv)).calls
                /\ UNCHANGED <<exit_status, mode>>
           ELSE /\ stdin' = [stdin EXCEPT !.eof = TRUE]
                /\ mode' = "getopt"
                /\ exit_status' = IF WriteFailed(rc) THEN EXIT_FAILURE ELSE exit_status
                /\ UNCHANGED <<rc, buf, calls>>
    /\ UNCHANGED <<argv, fd, baudrate, quiet, eolchar, timeout, n, b, a, ifile, ports>>

\* ------------------------------------------------------------ -y, -r, -F
\* buf as the C string it holds: the bytes before the first NUL
CString(byte) == IF byte = 0 THEN <<>> ELSE <<byte>>

\* a read that ignores -t
ReadTimeout_Default(t) == DefaultTimeout

\* the timeout case 'y' and case 'r' hand to the read
ReadTimeout(t) == t

\* *((uint8_t*) buf): the first byte of buf, which memset filled with zeros
FirstByte(str) == IF str = <<>> THEN 0 ELSE str[1]

HexDigit(d) == IF d < 10 THEN 48 + d ELSE 87 + d

\* printf("0x%02x\n", byte): the characters before the newline
FormatHex(byte) == <<48, 120, HexDigit(byte \div 16), HexDigit(byte % 16)>>

\* printf("%s\n", buf)
FormatLine(str) == Append(str, NL)

OptY ==
    /\ Getopt
    /\ \E outcome \in ReadOutcomes, byte \in Bytes :
        /\ argv' = Append(argv, Flag("y", <<>>))
        /\ IF PortNotOpened(fd)
           THEN /\ exit_status' = EXIT_FAILURE
                /\ UNCHANGED <<buf, calls>>
           ELSE /\ buf' = IF outcome = "data" THEN CString(byte) ELSE <<>>
                /\ calls' = print(serialport_read_byte(World, fd, ReadTimeout(timeout),
                                                       outcome, byte, Here),
                                  "printf", FormatHex(FirstByte(buf')), Here).calls
                /\ UNCHANGED exit_status
    /\ UNCHANGED <<stdin, mode, fd, baudrate, quiet, eolchar, timeout,
                   rc, n, b, a, ifile, ports>>

\* the lines serialport_read_until can leave in buf
LinesRead(outcome) == IF outcome = "error" THEN {<<>>} ELSE {<<>>, <<65>>}

OptR ==
    /\ Getopt
    /\ \E outcome \in ReadOutcomes :
       \E line \in LinesRead(outcome) :
        /\ argv' = Append(argv, Flag("r", <<>>))
        /\ IF PortNotOpened(fd)
           THEN /\ exit_status' = EXIT_FAILURE
                /\ UNCHANGED <<buf, calls>>
           ELSE /\ buf' = line
                /\ calls' = print(serialport_read_until(World, fd, ReadTimeout(timeout),
                                                        outcome, line, Here),
                                  "printf", FormatLine(buf'), Here).calls
                /\ UNCHANGED exit_status
    /\ UNCHANGED <<stdin, mode, fd, baudrate, quiet, eolchar, timeout,
                   rc, n, b, a, ifile, ports>>

OptFlush ==
    /\ Getopt
    /\ argv' = Append(argv, Flag("F", <<>>))
    /\ IF PortNotOpened(fd)
       THEN /\ exit_status' = EXIT_FAILURE
            /\ UNCHANGED calls
       ELSE /\ calls' = serialport_flush(World, fd, Here).calls
            /\ UNCHANGED exit_status
    /\ UNCHANGED <<stdin, mode, locals, ifile, ports>>

\* ------------------------------------------------------- the whole program
Next ==
    \/ NoArgs
    \/ EndOfOptions
    \/ OptOther
    \/ OptQ
    \/ OptE
    \/ OptT
    \/ OptD
    \/ OptH
    \/ OptB
    \/ OptP
    \/ OptN
    \/ OptF
    \/ RelayStep
    \/ OptV
    \/ SaveStep
    \/ OptS
    \/ OptI
    \/ StdinStep
    \/ OptY
    \/ OptR
    \/ OptFlush

Spec == Init /\ [][Next]_vars

\* ------------------------------------- the run "-p <port> -f <file>" alone
\* byte i of the file: neighbouring bytes differ, so order and repetition show
FileByte(i) == 65 + (i % 7)

\* the files of up to RelayMaxFile bytes
RelayFiles == {[i \in 1..len |-> FileByte(i)] : len \in 0..RelayMaxFile}

RelayOpen == argv = <<>> /\ OptP

RelayStart == Len(argv) = 1 /\ OptFWith(RelayFiles)

RelayExit == Len(argv) = 2 /\ EndOfOptions

RelayNext ==
    \/ RelayOpen
    \/ RelayStart
    \/ RelayStep
    \/ RelayExit

RelaySpec == Init /\ [][RelayNext]_vars

\* ------------------------------------------ the same run, with its link
\* The send queue of the port after the first k calls: a successful write puts
\* its bytes in the queue, the link takes them out one at a time, a drain
\* returns when the queue is empty, and a flush discards what is queued.
RECURSIVE LinkAfter(_)
LinkAfter(k) ==
    IF k = 0 THEN [queue |-> <<>>, lost |-> <<>>]
    ELSE LET s == LinkAfter(k - 1)
             e == calls[k]
             onPort == e.fd \notin {LocalFd, StdoutFd}
         IN  IF onPort /\ e.op \in {"writebyte", "write"} /\ e.res = 0
                 THEN [s EXCEPT !.queue = @ \o e.data]
             ELSE IF e.op = "transmit" THEN [s EXCEPT !.queue = Tail(@)]
             ELSE IF onPort /\ e.op = "tcdrain" THEN [s EXCEPT !.queue = <<>>]
             ELSE IF onPort /\ e.op = "flush"
                 THEN [queue |-> <<>>, lost |-> s.lost \o s.queue]
             ELSE s

Link == LinkAfter(Len(calls))

\* the link sends the oldest queued byte to the peer, at its own pace
Transmit ==
    /\ Link.queue # <<>>
    /\ calls' = Append(calls, Ev("transmit", fd, <<Head(Link.queue)>>, 0, 0, Len(argv)))
    /\ UNCHANGED <<argv, stdin, exit_status, mode, locals, ifile, ports>>

LinkFiles == {[i \in 1..len |-> FileByte(i)] : len \in 0..LinkMaxFile}

LinkStart == Len(argv) = 1 /\ OptFWith(LinkFiles)

LinkNext ==
    \/ RelayOpen
    \/ LinkStart
    \/ RelayStep
    \/ RelayExit
    \/ Transmit

LinkSpec == Init /\ [][LinkNext]_vars

\* main is one thread: once serialport_read_byte_file returns, which it does
\* within its timeout, the pass of the loop that called it runs to its end
RelayFairSpec == RelaySpec /\ WF_vars(RelayStep)

\* ---------------------------------------------- reading the log of calls
\* calls[k] opened a serial handle
Opened(k) == calls[k].op = "init" /\ calls[k].res # NoFd

\* the handle opened by calls[j] is still open just before calls[k]
StillOpen(j, k) ==
    /\ Opened(j)
    /\ ~\E m \in (j + 1)..(k - 1) :
          calls[m].op = "close" /\ calls[m].fd = calls[j].res

\* handle h is open just before calls[k]
OpenAt(h, k) == \E j \in 1..(k - 1) : calls[j].res = h /\ StillOpen(j, k)

\* calls[k] is an operation on a serial handle (not on a local file or stdout)
IsSerialOp(k) ==
    /\ calls[k].op \in {"flush", "close", "writebyte", "write", "read_byte",
                        "read_until", "tcdrain"}
    /\ calls[k].fd \notin {LocalFd, StdoutFd}

IsSerialWrite(k) == IsSerialOp(k) /\ calls[k].op \in {"writebyte", "write"}
IsSerialRead(k) == IsSerialOp(k) /\ calls[k].op \in {"read_byte", "read_until"}

\* a port was opened by a flag before position i
OpenedBefore(i) == \E k \in DOMAIN calls : Opened(k) /\ calls[k].at < i

\* the flags whose handler works on the port
PortFlags == {"n", "f", "v", "s", "S", "i", "y", "r", "F"}

RECURSIVE LastArg(_, _, _)
\* the argument of the last flag o before position i, <<>> marks "none"
LastArg(o, i, none) ==
    IF i <= 1 THEN none
    ELSE IF argv[i - 1].opt = o THEN argv[i - 1].arg
    ELSE LastArg(o, i - 1, none)

\* the rate in force for a -p at position i
BaudBefore(i) ==
    LET arg == LastArg("b", i, <<>>)
    IN  IF arg = <<>> THEN DefaultBaud ELSE BaudOf(arg)

\* the timeout in force for a flag at position i
TimeoutBefore(i) ==
    LET arg == LastArg("t", i, <<>>)
    IN  IF arg = <<>> THEN DefaultTimeout ELSE TimeoutOf(arg)

Exited == exit_status # Running

\* ------------------------------------------------------------------ claims

\* C1: at most one serial handle is open at any point; when -p is processed
\* while a port is open, no handle is open any more when the new port is opened.
C1_AtMostOneHandle ==
    /\ Cardinality(ports) <= 1
    /\ \A k \in DOMAIN calls :
          calls[k].op = "init" => ~\E j \in 1..(k - 1) : StillOpen(j, k)

\* a second -p has opened a port after the first one's port
C1_Witness ==
    /\ Cardinality({k \in DOMAIN calls : Opened(k)}) >= 2
    /\ Cardinality(ports) = 1

C3_NoSerialOpWithoutPort ==
    /\ \A k \in DOMAIN calls : IsSerialOp(k) => OpenAt(calls[k].fd, k)
    /\ \A i \in DOMAIN argv :
          (argv[i].opt \in PortFlags /\ ~OpenedBefore(i)) =>
              /\ exit_status = EXIT_FAILURE
              /\ i = Len(argv)
              /\ ~\E k \in DOMAIN calls : calls[k].at = i

\* a port flag was processed with no port open, after an earlier flag
C3_Witness ==
    /\ Len(argv) >= 2
    /\ argv[Len(argv)].opt \in PortFlags
    /\ ~OpenedBefore(Len(argv))
    /\ exit_status = EXIT_FAILURE

\* C4: whenever a write to the serial port has failed, the process exits with
\* status 1.
C4_WriteFailureExitsOne ==
    (Exited /\ \E k \in DOMAIN calls : IsSerialWrite(k) /\ calls[k].res = -1)
        => exit_status = EXIT_FAILURE

\* C5: the process exits with status 1 only if some operation failed: a port
\* flag with no open port, or a call that returned a failure.
C5_ExitOneOnlyOnFailure ==
    exit_status = EXIT_FAILURE =>
        \/ \E i \in DOMAIN argv : argv[i].opt \in PortFlags /\ ~OpenedBefore(i)
        \/ \E k \in DOMAIN calls : calls[k].res < 0

\* calls[k] is a per-operation failure: a local file that did not open, a
\* failed read of the relayed file, a failed or timed-out serial read
IsOperationFailure(k) ==
    /\ calls[k].op \in {"fopen", "open", "read_byte_file", "read_byte", "read_until"}
    /\ calls[k].res < 0

\* C6: after a per-operation failure no later flag is executed.
C6_FailureEndsSequence ==
    \A k \in DOMAIN calls : IsOperationFailure(k) => calls[k].at = Len(argv)

\* C7: if opening or configuring the port fails, the process exits with status
\* 1, and nothing runs after the failed serialport_init: no call, no flag.
C7_InitFailureAborts ==
    \A k \in DOMAIN calls :
        (calls[k].op = "init" /\ calls[k].res = NoFd) =>
            /\ exit_status = EXIT_FAILURE
            /\ k = Len(calls)
            /\ calls[k].at = Len(argv)
            /\ fd = NoFd

\* a -p could not open or configure its port and ended the process
C7_Witness ==
    /\ calls # <<>>
    /\ calls[Len(calls)].op = "init" /\ calls[Len(calls)].res = NoFd
    /\ exit_status = EXIT_FAILURE

\* C8: calls are made in the order of the flags; a port is configured with the
\* rate of the last -b before its -p (9600 if none), and keeps that rate whatever
\* -b follows.
C8_BaudOfPrecedingB ==
    /\ \A k \in 1..(Len(calls) - 1) : calls[k].at <= calls[k + 1].at
    /\ \A k \in DOMAIN calls :
          calls[k].op = "init" => calls[k].tmo = BaudBefore(calls[k].at)
    /\ \A p \in ports :
          \E k \in DOMAIN calls :
              Opened(k) /\ calls[k].res = p.h /\ p.baud = BaudBefore(calls[k].at)

\* a -b after the -p: the open port keeps a rate that is not the current baudrate
C8_Witness ==
    /\ \E p \in ports : p.baud # baudrate /\ p.baud # DefaultBaud
    /\ baudrate # DefaultBaud

\* C9: the timeout handed to every serial read is non-negative.
C9_TimeoutNonNegative ==
    \A k \in DOMAIN calls : IsSerialRead(k) => calls[k].tmo >= 0

IsPrint(k, op) == calls[k].op = op /\ calls[k].fd = StdoutFd

\* the flag whose handler made call k
FlagOf(k) == argv[calls[k].at].opt

\* what -y prints for a received byte 0x00, and -r for a received empty line
ZeroLengthOutput(o) == IF o = "y" THEN FormatHex(0) ELSE FormatLine(<<>>)

\* C14: a -y or -r read that did not succeed can be told from a zero-length
\* success: the run that ends with status 0 printed something else for it than
\* it prints for a received 0x00 byte (-y) or a received empty line (-r).
C14_TimeoutDistinguishable ==
    exit_status = EXIT_SUCCESS =>
        \A k \in DOMAIN calls :
            (IsSerialRead(k) /\ FlagOf(k) \in {"y", "r"} /\ calls[k].res < 0) =>
                calls[k + 1].data # ZeroLengthOutput(FlagOf(k))

\* C16: in -v, once a write to the output file has failed, no further byte is
\* read from the port.
C16_NoReadAfterFailedSave ==
    \A k \in DOMAIN calls :
        (calls[k].op = "writebyte" /\ calls[k].fd = LocalFd /\ calls[k].res < 0) =>
            \A j \in DOMAIN calls :
                (j > k /\ calls[j].at = calls[k].at) => ~IsSerialRead(j)

\* C17: in -f, a character is echoed only for a read that returned a byte, and
\* it is the byte handed to the writer next.
C17_EchoIsWhatIsWritten ==
    \A k \in DOMAIN calls :
        IsPrint(k, "echo") =>
            /\ calls[k - 1].op = "read_byte_file" /\ calls[k - 1].res = 0
            /\ k + 1 \in DOMAIN calls
            /\ IsSerialWrite(k + 1) /\ calls[k + 1].data = calls[k].data

\* the successful byte writes to the port made by the flag at position i
WrittenBy(i) ==
    {j \in DOMAIN calls : IsSerialWrite(j) /\ calls[j].at = i /\ calls[j].res = 0}

\* C18: the byte count -f reports is the number of bytes it wrote to the port
\* successfully.
C18_ReportCountsWritten ==
    \A k \in DOMAIN calls :
        IsPrint(k, "report") => calls[k].data = <<Cardinality(WrittenBy(calls[k].at))>>

\* --------------------------------------------------- the relay in the log
\* the file -f opened, as fopen found it
FileOpened == \E k \in DOMAIN calls : calls[k].op = "fopen" /\ calls[k].res = 0

FileContent ==
    LET k == CHOOSE i \in DOMAIN calls : calls[i].op = "fopen" /\ calls[i].res = 0
    IN  calls[k].data

IsFileRead(e) == e.op = "read_byte_file"
IsPortWrite(e) == e.op = "writebyte" /\ e.fd \notin {LocalFd, StdoutFd}

FileReads == SelectSeq(calls, IsFileRead)
PortWrites == SelectSeq(calls, IsPortWrite)

\* the bytes handed to the port, in the order of the writes
BytesWritten == [i \in DOMAIN PortWrites |-> PortWrites[i].data[1]]

\* no read of the file and no write to the port has failed
AllSucceeded ==
    /\ \A i \in DOMAIN FileReads : FileReads[i].res >= 0
    /\ \A i \in DOMAIN PortWrites : PortWrites[i].res = 0

IsEof(e) == IsFileRead(e) /\ e.res = RcEof
EofReads == SelectSeq(calls, IsEof)

\* the relay has run and is over
RelayOver == FileOpened /\ mode = "getopt"

\* C11: while every read and write succeeds, the bytes written to the port are
\* the first bytes of the file, in order and once each; end of file is met at
\* most once, only after the whole file was written, it is the last the relay
\* does with the file and the port's data, and a relay that is over has met it.
C11_RelaysTheFile ==
    (FileOpened /\ AllSucceeded) =>
        /\ Len(BytesWritten) <= Len(FileContent)
        /\ BytesWritten = SubSeq(FileContent, 1, Len(BytesWritten))
        /\ Len(EofReads) <= 1
        /\ Len(EofReads) = 1 =>
              /\ BytesWritten = FileContent
              /\ IsEof(FileReads[Len(FileReads)])
              /\ Len(FileReads) = Len(FileContent) + 1
        /\ RelayOver => Len(EofReads) = 1

\* a file of several different bytes relayed to its end with no failure
C11_Witness ==
    /\ RelayOver /\ AllSucceeded
    /\ Len(FileContent) >= 8
    /\ Len(EofReads) = 1

IsPortDrain(e) == e.op = "tcdrain" /\ e.fd \notin {LocalFd, StdoutFd}
IsConsoleDrain(e) == e.op = "tcdrain" /\ e.fd = StdoutFd

\* the positions in the log of the calls that pass Test, in order
Positions(Test(_)) ==
    SelectSeq([k \in 1..Len(calls) |-> k], LAMBDA k : Test(calls[k]))

WritePos == Positions(IsPortWrite)
DrainPos == Positions(IsPortDrain)

\* no drain of the port lies between the i-th and the j-th write to it
Undrained(i, j) ==
    \A d \in DOMAIN DrainPos :
        ~(WritePos[i] < DrainPos[d] /\ DrainPos[d] < WritePos[j])

\* C13: in the relay a drain of the port is followed at once by a drain of the
\* console and the console is drained at no other time, and never more than
\* 60 bytes are written to the port without a drain among them.
C13_DrainsPairedEverySixty ==
    /\ \A k \in DOMAIN calls :
          IsPortDrain(calls[k]) => k < Len(calls) /\ IsConsoleDrain(calls[k + 1])
    /\ \A k \in DOMAIN calls :
          IsConsoleDrain(calls[k]) => k > 1 /\ IsPortDrain(calls[k - 1])
    /\ \A i \in DOMAIN WritePos :
          (i + DrainEvery) \in DOMAIN WritePos => ~Undrained(i, i + DrainEvery)

\* a relay that drained twice, with 60 bytes written between the two drains
C13_Witness ==
    /\ Len(DrainPos) = 2
    /\ \E i \in DOMAIN WritePos :
          /\ (i + DrainEvery - 1) \in DOMAIN WritePos
          /\ Undrained(i, i + DrainEvery - 1)
          /\ DrainPos[1] < WritePos[i] /\ WritePos[i + DrainEvery - 1] < DrainPos[2]

\* the relay stops at the first end of file, failed read or failed write, and
\* has by then tried at most one read more than the file has bytes
RelayEndsAtFirst ==
    FileOpened =>
        /\ Len(FileReads) <= Len(FileContent) + 1
        /\ \A i \in DOMAIN FileReads : FileReads[i].res # 0 => i = Len(FileReads)
        /\ \A k \in DOMAIN calls :
              (IsPortWrite(calls[k]) /\ calls[k].res # 0) =>
                  \A j \in (k + 1)..Len(calls) :
                      ~IsFileRead(calls[j]) /\ ~IsPortWrite(calls[j])
        /\ RelayOver =>
              \/ FileReads[Len(FileReads)].res # 0
              \/ PortWrites[Len(PortWrites)].res # 0

\* C15: the relay terminates whatever the file and whatever the reads and writes
\* return: it ends at the first end of file, failed read or failed write, after
\* at most N + 1 reads of an N-byte file.
C15_RelayTerminates ==
    /\ []RelayEndsAtFirst
    /\ (mode = "relay") ~> (mode = "getopt")

\* a relay ended by a failed write before the end of the file
C15_Witness ==
    /\ RelayOver
    /\ PortWrites # <<>> /\ PortWrites[Len(PortWrites)].res # 0
    /\ Len(FileReads) < Len(FileContent)

\* C12: no byte the relay wrote to the port is discarded before the link has
\* sent it, however slowly the link sends.
C12_NoByteLost == Link.lost = <<>>

====
